---------------------------- MODULE Spec2Model ----------------------------
(***************************************************************************)
(* Model of the StepperWinch motion core: the Stepper step generator       *)
(* (Stepper.h, Stepper.cpp), polled from a timer interrupt, and the        *)
(* foreground operations that share its fields without locks.              *)
(*                                                                         *)
(* The interrupt preempts the foreground between any two of its memory     *)
(* accesses and is itself never preempted, so a poll is one step and a     *)
(* foreground read-modify-write is one step per memory access.             *)
(*                                                                         *)
(* The Path trajectory generator (Path.h, Path.cpp) runs in the main loop  *)
(* alone: each of its operations is one step.  Its float fields are IEEE   *)
(* 754 binary32 values, computed operation by operation as the code        *)
(* computes them; the width of double, which the code uses for 1e-6 and    *)
(* M_PI, is that of the build (32 bits on AVR, 64 bits elsewhere).         *)
(***************************************************************************)
EXTENDS Integers, Sequences, FiniteSets, TLC

(***************************************************************************)
(* Program constants.                                                      *)
(***************************************************************************)
\* cnc_shield.h: the X axis pins, the arguments of the modelled Stepper.
X_AXIS_STEP_PIN == 2
X_AXIS_DIR_PIN == 5
\* The levels handed to digitalWrite.
LOW == 0
HIGH == 1
\* Stepper::Stepper: 200 microseconds = 5000 steps/sec.
DefaultStepInterval == 200
\* Stepper::setSpeed: microseconds per second.
MicrosPerSecond == 1000000

(***************************************************************************)
(* Bounds of the model.                                                    *)
(***************************************************************************)
\* |target| never exceeds MaxPos (so position stays in -MaxPos..MaxPos).
MaxPos == 2
\* Spec, SpecRate: elapsed never exceeds MaxElapsed (far below the
\* wrap-around of an unsigned long).
MaxElapsed == 8
\* SpecRate: the total polled time never exceeds MaxPolled.
MaxPolled == 12
\* SpecTick: the number of polls, and the backlog elapsed may hold.
MaxPolls == 20000
MaxBacklog == 450
\* SpecPath: the model time t never exceeds MaxPathTime milliseconds, and
\* finite targets and references stay within MaxPathPos steps.
MaxPathTime == 2
MaxPathPos == 1000

\* Poll intervals in microseconds (unsigned long).
Intervals == {0, 1, 3, 5}
\* Arguments of setSpeed (int): non-positive ones, ones whose quotient is
\* 4, 2 and 1 microseconds, and one above a million, whose quotient is zero.
SpeedInputs == {-1, 0, 250000, 500000, 1000000, 2000000}
\* Arguments of setTarget (long).
TargetInputs == -MaxPos..MaxPos
\* Arguments of incrementTarget (long).
OffsetInputs == {-1, 1, 2}

VARIABLES
  \* Stepper fields (Stepper.h)
  position,       \* long: written by the poll only
  target,         \* long: written by the foreground only
  elapsed,        \* unsigned long: microseconds since the last due poll
  step_interval,  \* unsigned long: microseconds between steps
  \* hardware
  pins,           \* level of each output pin
  writes,         \* what the most recent poll did, in program order
  \* foreground context
  fg_pc,          \* "idle", or the operation the foreground is inside of
  fg_arg,         \* that operation's argument (0 when idle)
  fg_reg,         \* the register its read-modify-write holds (0 when idle)
  fg_ret,         \* the value currentPosition returned last
  preempted,      \* a poll has run inside the operation in progress
  \* history, for the rate claims (frozen in Spec)
  running,        \* polling has begun: the configuration is over
  pulses,         \* step pulses emitted so far
  polled,         \* sum of all poll intervals so far
  npolls,         \* number of polls so far
  tick,           \* the constant poll interval (0: not chosen)
  since,          \* polled time since the last pulse (-1: no pulse yet)
  carry,          \* elapsed right after the last pulse
  gap,            \* polled time between the last two pulses (-1: none)
  gap_carry,      \* elapsed right after the earlier of the last two pulses
  \* the Path generator (Path.h): a record of its fields
  path,
  \* the build: the width of its double, in bits
  double_bits,
  \* history of the Path generator, for the claims about whole runs
  path_polls,     \* number of polls of the Path generator so far
  path_tick       \* their constant interval (0: not chosen)

stepper == <<position, target, elapsed, step_interval>>
hardware == <<pins, writes>>
foreground == <<fg_pc, fg_arg, fg_reg, fg_ret>>
history == <<running, pulses, polled, npolls, tick, since, carry, gap, gap_carry>>
generator == <<path, double_bits, path_polls, path_tick>>
vars == <<position, target, elapsed, step_interval, pins, writes,
          fg_pc, fg_arg, fg_reg, fg_ret, preempted,
          running, pulses, polled, npolls, tick, since, carry, gap, gap_carry,
          path, double_bits, path_polls, path_tick>>

Abs(x) == IF x < 0 THEN -x ELSE x

(***************************************************************************)
(* Hardware abstraction.                                                   *)
(***************************************************************************)
\* digitalWrite(pin, level), as the record the poll leaves in `writes`.
PinWrite(pin, level) == <<"digitalWrite", pin, level>>
\* The position update, recorded between the two step pin writes.
PositionUpdate(delta) == <<"position", delta>>
\* The pin levels after a sequence of such records.
RECURSIVE ApplyWrites(_, _)
ApplyWrites(p, ws) ==
  IF ws = <<>> THEN p
  ELSE ApplyWrites(IF Head(ws)[1] = "digitalWrite"
                     THEN [p EXCEPT ![Head(ws)[2]] = Head(ws)[3]]
                     ELSE p,
                   Tail(ws))

(***************************************************************************)
(* Stepper::pollForInterval (Stepper.cpp 26-51), piece by piece.           *)
(***************************************************************************)
\* line 29: elapsed += interval
Accumulate(e, interval) == e + interval

\* Mutant of Due: an off-by-one in the comparison.
DueOffByOne(e, si) == e >= si - 1

\* line 31: if (elapsed >= step_interval)
Due(e, si) == e >= si

\* Mutant of Restart: the subtraction left out.
RestartForgotten(e, si) == e

\* line 34: elapsed -= step_interval
Restart(e, si) == e - si

\* Mutant of MustStep: only a target ahead of position is stepped to.
MustStepForwardOnly(pos, tgt) == pos < tgt

\* line 37: if (position != target)
MustStep(pos, tgt) == pos /= tgt

\* Mutant of Direction: the two levels swapped.
DirectionSwapped(pos, tgt) == IF pos < tgt THEN LOW ELSE HIGH

\* line 40: (position < target) ? HIGH : LOW
Direction(pos, tgt) == IF pos < tgt THEN HIGH ELSE LOW

\* Mutant of Advance: the two branches swapped.
AdvanceAway(pos, tgt) == IF pos < tgt THEN pos - 1 ELSE pos + 1

\* lines 46-47: if (position < target) position++; else position--;
Advance(pos, tgt) == IF pos < tgt THEN pos + 1 ELSE pos - 1

\* lines 40-48: the pin writes and the position update of one step.
EmitStep(pos, tgt) ==
  << PinWrite(X_AXIS_DIR_PIN, Direction(pos, tgt)),
     PinWrite(X_AXIS_STEP_PIN, HIGH),
     PositionUpdate(Advance(pos, tgt) - pos),
     PinWrite(X_AXIS_STEP_PIN, LOW) >>

\* Mutant of PollWrites: "while (elapsed >= step_interval)", a poll that
\* catches up on a backlog of two intervals with two steps.
PollWritesCatchUp(pos, tgt, e, si, interval) ==
  IF Due(Accumulate(e, interval), si) /\ MustStep(pos, tgt)
    THEN IF /\ Due(Restart(Accumulate(e, interval), si), si)
            /\ MustStep(Advance(pos, tgt), tgt)
           THEN EmitStep(pos, tgt) \o EmitStep(Advance(pos, tgt), tgt)
           ELSE EmitStep(pos, tgt)
    ELSE <<>>

\* What one poll does, given the fields it reads.
PollWrites(pos, tgt, e, si, interval) ==
  IF Due(Accumulate(e, interval), si) /\ MustStep(pos, tgt)
    THEN EmitStep(pos, tgt)
    ELSE <<>>

\* The number of step pulses (rising edges of the step pin) in a poll's record.
PulsesIn(ws) ==
  Cardinality({i \in 1..Len(ws) : ws[i] = PinWrite(X_AXIS_STEP_PIN, HIGH)})

\* The sum of the position updates in a poll's record.
RECURSIVE Moved(_)
Moved(ws) ==
  IF ws = <<>> THEN 0
  ELSE (IF Head(ws)[1] = "position" THEN Head(ws)[2] ELSE 0) + Moved(Tail(ws))

\* The whole poll: the interrupt handler runs to completion.
pollForInterval(interval) ==
  /\ elapsed' = IF Due(Accumulate(elapsed, interval), step_interval)
                  THEN Restart(Accumulate(elapsed, interval), step_interval)
                  ELSE Accumulate(elapsed, interval)
  /\ writes' = PollWrites(position, target, elapsed, step_interval, interval)
  /\ position' = position + Moved(writes')
  /\ pins' = ApplyWrites(pins, writes')
  /\ UNCHANGED <<target, step_interval>>



(***************************************************************************)
(* The foreground operations (Stepper.h 63-80).                            *)
(***************************************************************************)
\* Mutant of setTarget: the parameter, which shadows the field position,
\* mistaken for it.
setTargetShadowed(pos) ==
  /\ position' = pos
  /\ UNCHANGED <<target, elapsed, step_interval>>

\* line 66: void setTarget(long position) { target = position; }
setTarget(pos) ==
  /\ target' = pos
  /\ UNCHANGED <<position, elapsed, step_interval>>

\* line 63: target += offset, the load of target into a register ...
incrementTargetLoad ==
  /\ fg_reg' = target
  /\ UNCHANGED stepper

\* ... and the store of the sum.
incrementTargetStore(offset) ==
  /\ target' = fg_reg + offset
  /\ UNCHANGED <<position, elapsed, step_interval>>

\* line 69: long currentPosition(void) { return position; }
currentPosition ==
  /\ fg_ret' = position
  /\ UNCHANGED stepper

\* line 77: 1000000 / speed, for speed > 0
Quotient(speed) == MicrosPerSecond \div speed

\* line 78: if (step_interval == 0) step_interval = 1;
ZeroCheck(si) == IF si = 0 THEN 1 ELSE si

\* lines 76-77: the guard and the store of the quotient.
setSpeedStore(speed) ==
  /\ step_interval' = IF speed > 0 THEN Quotient(speed) ELSE step_interval
  /\ UNCHANGED <<position, target, elapsed>>

\* line 78, inside the guard of line 76: the zero check, a second access
\* to step_interval.
setSpeedCheck(speed) ==
  /\ step_interval' = IF speed > 0 THEN ZeroCheck(step_interval)
                                   ELSE step_interval
  /\ UNCHANGED <<position, target, elapsed>>

(***************************************************************************)
(* The numbers of the Path generator.  Its fields are single-precision     *)
(* floats (IEEE 754 binary32): a finite one is m * 2^e with a signed       *)
(* 24-bit significand m, every result is rounded to the nearest float,     *)
(* ties to the even significand, and there are the two infinities and NaN  *)
(* with the arithmetic and the comparisons IEEE 754 gives them.  Zero has  *)
(* no sign here: no operation of Path tells -0.0 from 0.0.                 *)
(***************************************************************************)
\* FLT_MANT_DIG: the bits of a significand.
MantBits == 24
\* The exponent of the subnormal floats, the least there is.
MinExp == -149
\* The exponent of FLT_MAX = (2^24 - 1) * 2^104.
MaxExp == 104
\* The bits of an intermediate result that are kept before rounding.
WorkBits == 30
\* The width of double in the build, sizeof(double) * 8: 32 on AVR, where
\* double is float, 64 elsewhere.  It decides how the double constants of
\* Path.cpp 43 and Path.h 89 enter the arithmetic.
DoubleBits == {32, 64}

Max(a, b) == IF a > b THEN a ELSE b
Min(a, b) == IF a < b THEN a ELSE b
Sign(n) == IF n < 0 THEN -1 ELSE IF n > 0 THEN 1 ELSE 0

Fin(m, e) == [c |-> "fin", m |-> m, e |-> e]
Zero == Fin(0, MinExp)
PInf == [c |-> "inf", m |-> 1, e |-> 0]
NInf == [c |-> "inf", m |-> -1, e |-> 0]
NaN == [c |-> "nan", m |-> 0, e |-> 0]
Inf(sgn) == IF sgn < 0 THEN NInf ELSE PInf

IsNaN(x) == x.c = "nan"
\* isinf(x)
IsInf(x) == x.c = "inf"
IsFin(x) == x.c = "fin"
IsZero(x) == IsFin(x) /\ x.m = 0

\* The number of bits of n > 0, for n < 2^31.
BitLen(n) == CHOOSE k \in 1..31 : n \div 2^(k - 1) = 1

\* The float nearest to sgn * (S + f) * 2^e, where 0 < f < 1 if sticky and
\* f = 0 otherwise: S is cut to 24 bits, or to fewer at the least exponent,
\* and rounded on the bits cut off.
Pack(sgn, S, e, sticky) ==
  IF S = 0 THEN Zero
  ELSE
    LET n == BitLen(S)
        k == Max(n - MantBits, MinExp - e)
    IN IF k <= 0
         THEN LET s == Min(MantBits - n, e - MinExp)
              IN IF e - s > MaxExp THEN Inf(sgn)
                 ELSE Fin(sgn * S * 2^s, e - s)
       ELSE IF k > WorkBits THEN Zero
       ELSE
         LET q == S \div 2^k
             r == S % 2^k
             half == 2^(k - 1)
             up == r > half \/ (r = half /\ (sticky \/ q % 2 = 1))
             m == IF up THEN q + 1 ELSE q
             m1 == IF m = 2^MantBits THEN 2^(MantBits - 1) ELSE m
             e1 == IF m = 2^MantBits THEN e + k + 1 ELSE e + k
         IN IF m1 = 0 THEN Zero
            ELSE IF e1 > MaxExp THEN Inf(sgn)
            ELSE Fin(sgn * m1, e1)

\* The same for sgn * (hi * 2^24 + lo + f) * 2^e, a product of two
\* significands.
PackWide(sgn, hi, lo, e, sticky) ==
  IF hi < 2^(WorkBits - MantBits)
    THEN Pack(sgn, hi * 2^MantBits + lo, e, sticky)
  ELSE
    LET keep == Max(WorkBits - BitLen(hi), 0)
        drop == MantBits - keep
    IN Pack(sgn, hi * 2^keep + lo \div 2^drop, e + drop,
            sticky \/ lo % 2^drop /= 0)

\* a * b for two significands, as <<high 24 bits and above, low 24 bits>>.
Mul48(a, b) ==
  LET a1 == a \div 4096
      a0 == a % 4096
      b1 == b \div 4096
      b0 == b % 4096
      mid == a1 * b0 + a0 * b1
      low == a0 * b0 + (mid % 4096) * 4096
  IN <<a1 * b1 + mid \div 4096 + low \div 2^MantBits, low % 2^MantBits>>

\* The least long, of 32 bits (AVR and the 32-bit ARM boards).
LONG_MIN == -2147483647 - 1

\* (float) n, for a long n
FromLong(n) ==
  IF n = LONG_MIN THEN Fin(-(2^(MantBits - 1)), 32 - MantBits)
  ELSE Pack(Sign(n), Abs(n), 0, FALSE)

\* (long) x for a finite x: cut toward zero (within the range of long).
ToLong(x) ==
  IF x.e >= 0 THEN x.m * 2^x.e
  ELSE IF -x.e > WorkBits THEN 0
  ELSE Sign(x.m) * (Abs(x.m) \div 2^(-x.e))

\* -x
FNeg(x) == IF IsNaN(x) THEN NaN ELSE [x EXCEPT !.m = -x.m]

\* x + y for finite x and y, the exponent of x not below that of y.
AddFinite(x, y) ==
  LET d == x.e - y.e
      g == Min(d, WorkBits - MantBits)
      X == Abs(x.m) * 2^g
      Y == Abs(y.m) \div 2^(d - g)
      lost == Abs(y.m) % 2^(d - g) /= 0
  IN IF y.m = 0 \/ d > WorkBits - 4 THEN x
     ELSE IF x.m = 0 THEN y
     ELSE IF Sign(x.m) = Sign(y.m) THEN Pack(Sign(x.m), X + Y, x.e - g, lost)
     ELSE IF X >= Y
       THEN Pack(Sign(x.m), X - Y - (IF lost THEN 1 ELSE 0), x.e - g, lost)
     ELSE Pack(Sign(y.m), Y - X, x.e - g, FALSE)

\* x + y: opposite infinities add up to NaN.
FAdd(x, y) ==
  IF IsNaN(x) \/ IsNaN(y) THEN NaN
  ELSE IF IsInf(x) /\ IsInf(y) THEN (IF x.m = y.m THEN x ELSE NaN)
  ELSE IF IsInf(x) THEN x
  ELSE IF IsInf(y) THEN y
  ELSE IF x.e >= y.e THEN AddFinite(x, y)
  ELSE AddFinite(y, x)

\* x - y
FSub(x, y) == FAdd(x, FNeg(y))

\* x * y: zero times infinity is NaN.
FMul(x, y) ==
  IF IsNaN(x) \/ IsNaN(y) THEN NaN
  ELSE IF IsInf(x) \/ IsInf(y)
    THEN (IF x.m = 0 \/ y.m = 0 THEN NaN ELSE Inf(Sign(x.m) * Sign(y.m)))
  ELSE IF x.m = 0 \/ y.m = 0 THEN Zero
  ELSE LET p == Mul48(Abs(x.m), Abs(y.m))
       IN PackWide(Sign(x.m) * Sign(y.m), p[1], p[2], x.e + y.e, FALSE)

\* x < y: false when either is NaN.
FLt(x, y) ==
  IF IsNaN(x) \/ IsNaN(y) THEN FALSE
  ELSE IF IsInf(x) THEN x.m = -1 /\ y /= NInf
  ELSE IF IsInf(y) THEN y.m = 1
  ELSE IF Sign(x.m) /= Sign(y.m) THEN Sign(x.m) < Sign(y.m)
  ELSE IF x.m >= 0 THEN x.e < y.e \/ (x.e = y.e /\ x.m < y.m)
  ELSE x.e > y.e \/ (x.e = y.e /\ x.m < y.m)

\* x > y
FGt(x, y) == FLt(y, x)

\* x <= y
FLe(x, y) == ~IsNaN(x) /\ ~IsNaN(y) /\ ~FLt(y, x)

\* x == y: false when either is NaN.
FEq(x, y) == ~IsNaN(x) /\ ~IsNaN(y) /\ x = y

\* fabs(x)
FAbs(x) == IF IsNaN(x) THEN NaN ELSE [x EXCEPT !.m = Abs(x.m)]

\* Arduino's min(a, b): ((a) < (b) ? (a) : (b))
min(a, b) == IF FLt(a, b) THEN a ELSE b

\* Arduino's constrain(amt, low, high):
\* ((amt) < (low) ? (low) : ((amt) > (high) ? (high) : (amt)))
constrain(amt, low, high) ==
  IF FLt(amt, low) THEN low ELSE IF FGt(amt, high) THEN high ELSE amt

\* The significand of x > 0 with its leading bit at bit 23, and the exponent
\* that goes with it (subnormal x have fewer bits).
Normal(x) ==
  LET s == MantBits - BitLen(x.m)
  IN <<x.m * 2^s, x.e - s>>

\* <<h1, l1>> <= <<h2, l2>> for two 48-bit numbers as pairs of 24 bits.
WideLe(p, q) == p[1] < q[1] \/ (p[1] = q[1] /\ p[2] <= q[2])

\* The largest r in lo..hi with r * r <= R, by bisection.
RECURSIVE SqrtBetween(_, _, _)
SqrtBetween(R, lo, hi) ==
  IF lo >= hi THEN lo
  ELSE LET mid == (lo + hi + 1) \div 2
       IN IF WideLe(Mul48(mid, mid), R) THEN SqrtBetween(R, mid, hi)
                                         ELSE SqrtBetween(R, lo, mid - 1)

\* sqrtf(x), correctly rounded: the radicand is the significand shifted to 47
\* or 48 bits with an even exponent; the root r is rounded up when
\* r * r + r < radicand.
FSqrt(x) ==
  IF IsNaN(x) THEN NaN
  ELSE IF IsZero(x) THEN x
  ELSE IF x.m < 0 THEN NaN
  ELSE IF IsInf(x) THEN x
  ELSE
    LET n == Normal(x)
        odd == n[2] % 2 /= 0
        R == IF odd THEN <<n[1] \div 2, (n[1] % 2) * 2^(MantBits - 1)>>
                    ELSE <<n[1], 0>>
        e == IF odd THEN n[2] - (MantBits - 1) ELSE n[2] - MantBits
        r == SqrtBetween(R, 2^(MantBits - 1), 2^MantBits - 1)
        sq == Mul48(r, r)
        above == <<sq[1] + (sq[2] + r + 1) \div 2^MantBits,
                   (sq[2] + r + 1) % 2^MantBits>>
    IN Pack(1, IF WideLe(above, R) THEN r + 1 ELSE r, e \div 2, FALSE)

\* (float) M_PI
Pi32 == Fin(13176795, -22)
\* M_PI * M_PI in double, to 48 bits: (PiSquaredHigh * 2^24 + PiSquaredLow)
\* * 2^-44.
PiSquaredHigh == 10349030
PiSquaredLow == 5108270
\* (float) 1e-6
Micro32 == Fin(8796093, -43)
\* 1e-6 in double: (MicroA * 2^36 + MicroB * 2^18 + MicroC) * 2^-72.
MicroA == 68719
MicroB == 124973
MicroC == 126349
\* x * M_PI * M_PI (Path.h 89).  Where double is float both products are
\* rounded to float; where it is wider they are double products and the
\* result is rounded to float when it is stored (the double roundings in
\* between are below the 48 bits kept here).
TimesPiSquared(x, bits) ==
  IF bits = 32 THEN FMul(FMul(x, Pi32), Pi32)
  ELSE IF ~IsFin(x) THEN x
  ELSE IF x.m = 0 THEN Zero
  ELSE
    LET h == Mul48(Abs(x.m), PiSquaredHigh)
        l == Mul48(Abs(x.m), PiSquaredLow)
        mid == h[2] + l[1]
        drop == MantBits - (WorkBits - MantBits)
    IN Pack(Sign(x.m), h[1] * 2^(WorkBits - MantBits) + mid \div 2^drop,
            x.e - 44 + MantBits + drop,
            mid % 2^drop /= 0 \/ l[2] /= 0)

\* float dt = 1e-6 * interval (Path.cpp 43).  Where double is float this is
\* the float product of (float) 1e-6 and (float) interval; where it is wider
\* it is the double product, rounded to float by the assignment (exact here
\* for intervals below 2^13; the rounding to double in between is below the
\* bits kept).
Dt(interval, bits) ==
  IF bits = 32 THEN FMul(Micro32, FromLong(interval))
  ELSE IF interval = 0 THEN Zero
  ELSE
    LET c == interval * MicroC
        b == interval * MicroB + c \div 2^18
        a == interval * MicroA + b \div 2^18
        keep == Min(WorkBits - BitLen(a), 18)
        rest == (b % 2^18) \div 2^(18 - keep)
    IN Pack(1, a * 2^keep + rest, -72 + 36 - keep,
            (b % 2^18) % 2^(18 - keep) /= 0 \/ c % 2^18 /= 0)

(***************************************************************************)
(* Path (Path.h, Path.cpp).                                                *)
(***************************************************************************)
\* Path.h 89: k = freq * freq * 4 * M_PI * M_PI
GainK(freq, bits) == TimesPiSquared(FMul(FMul(freq, freq), FromLong(4)), bits)
\* A derivative gain without the factor 2: half the damping asked for.
GainBUnderdamped(k, damping) == FMul(FSqrt(k), damping)

\* Path.h 90: b = 2 * sqrtf(k) * damping
GainB(k, damping) == FMul(FMul(FromLong(2), FSqrt(k)), damping)

\* Path::Path (Path.cpp 18-37), compiled with a double of the given width
PathInit(bits) ==
  [ q |-> Zero, qd |-> Zero, qdd |-> Zero,
    q_d |-> Zero, qd_d |-> Zero,
    q_d_d |-> Zero, speed |-> PInf,
    t |-> Zero,
    k |-> GainK(FromLong(2), bits),
    b |-> GainB(GainK(FromLong(2), bits), FromLong(1)),
    qd_max |-> FromLong(2400), qdd_max |-> FromLong(24000) ]

\* Path.cpp 46-49: the acceleration the model integrates, clamped.
Acceleration(p) ==
  constrain(FAdd(FMul(p.k, FSub(p.q_d, p.q)), FMul(p.b, FSub(p.qd_d, p.qd))),
            FNeg(p.qdd_max), p.qdd_max)

\* Path.cpp 52-57: one Euler step, then the velocity clamped.
Integrate(p, dt) ==
  [p EXCEPT
     !.q = FAdd(p.q, FMul(p.qd, dt)),
     !.qd = constrain(FAdd(p.qd, FMul(Acceleration(p), dt)),
                      FNeg(p.qd_max), p.qd_max),
     !.t = FAdd(p.t, dt)]

\* A ramp whose step is not bounded by the remaining error.
ReferenceUnbounded(p, dt) ==
  LET q_d_err == FSub(p.q_d_d, p.q_d)
      d_q_d_max == FMul(p.speed, dt)
  IN IF FEq(q_d_err, Zero)
       THEN [p EXCEPT !.qd_d = Zero]
     ELSE IF IsInf(p.speed)
       THEN [p EXCEPT !.q_d = p.q_d_d, !.qd_d = Zero]
     ELSE IF FGt(q_d_err, Zero)
       THEN [p EXCEPT !.q_d = FAdd(p.q_d, d_q_d_max), !.qd_d = p.speed]
       ELSE [p EXCEPT !.q_d = FSub(p.q_d, d_q_d_max),
                      !.qd_d = FNeg(p.speed)]

\* Path.cpp 62-83: the reference moved toward the target.
Reference(p, dt) ==
  LET q_d_err == FSub(p.q_d_d, p.q_d)
      d_q_d_max == FMul(p.speed, dt)
  IN IF FEq(q_d_err, Zero)
       THEN [p EXCEPT !.qd_d = Zero]
     ELSE IF IsInf(p.speed)
       THEN [p EXCEPT !.q_d = p.q_d_d, !.qd_d = Zero]
     ELSE IF FGt(q_d_err, Zero)
       THEN [p EXCEPT !.q_d = FAdd(p.q_d, min(d_q_d_max, q_d_err)),
                      !.qd_d = p.speed]
       ELSE [p EXCEPT !.q_d = FSub(p.q_d, min(d_q_d_max, FNeg(q_d_err))),
                      !.qd_d = FNeg(p.speed)]

\* Path::pollForInterval (Path.cpp 41-84)
PathPollResult(p, interval, bits) ==
  Reference(Integrate(p, Dt(interval, bits)), Dt(interval, bits))

\* Path.h 53: q_d_d += offset
PathIncrementTarget(p, offset) ==
  [p EXCEPT !.q_d_d = FAdd(p.q_d_d, FromLong(offset))]

\* Path.h 58: q_d += offset
PathIncrementReference(p, offset) ==
  [p EXCEPT !.q_d = FAdd(p.q_d, FromLong(offset))]

\* A setTarget that adds to the target, as incrementTarget does.
PathSetTargetAdding(p, pos) ==
  [p EXCEPT !.q_d_d = FAdd(p.q_d_d, FromLong(pos))]

\* Path.h 61: q_d_d = position
PathSetTarget(p, pos) == [p EXCEPT !.q_d_d = FromLong(pos)]

\* Path.h 66: speed = (newspeed <= 0) ? INFINITY : newspeed
PathSetSpeed(p, newspeed) ==
  [p EXCEPT !.speed = IF newspeed <= 0 THEN PInf ELSE FromLong(newspeed)]

\* Arduino's abs(x), ((x) > 0 ? (x) : -(x)), of a long, stored into a float.
\* -LONG_MIN overflows, which is undefined: a build that negates the long
\* leaves LONG_MIN, one that negates the float gets 2^31.
AbsToFloat(n) ==
  IF n = LONG_MIN THEN {FromLong(LONG_MIN), FNeg(FromLong(LONG_MIN))}
  ELSE {FromLong(Abs(n))}

\* Path.h 70-74: speed = abs(newspeed); q_d_d = +-INFINITY
PathSetVelocity(p, newspeed, magnitude) ==
  [p EXCEPT !.speed = magnitude,
            !.q_d_d = IF newspeed >= 0 THEN PInf ELSE NInf]

\* Path.h 83: k = k_new; b = b_new
PathSetPDgains(p, k_new, b_new) == [p EXCEPT !.k = k_new, !.b = b_new]

\* Path.h 87-91
PathSetFreqDamping(p, freq, damping, bits) ==
  [p EXCEPT !.k = GainK(freq, bits), !.b = GainB(GainK(freq, bits), damping)]

\* Path.h 94: qd_max = qdmax; qdd_max = qddmax
PathSetLimits(p, qdmax, qddmax) ==
  [p EXCEPT !.qd_max = qdmax, !.qdd_max = qddmax]

(***************************************************************************)
(* The state Stepper::Stepper leaves (Stepper.cpp 14-23), with both pins   *)
(* low and the foreground about to make its first call.                    *)
(***************************************************************************)
StepperInit ==
  /\ position = 0
  /\ target = 0
  /\ elapsed = 0
  /\ step_interval = DefaultStepInterval
  /\ pins = [p \in {X_AXIS_STEP_PIN, X_AXIS_DIR_PIN} |-> LOW]
  /\ writes = <<>>
  /\ fg_pc = "idle"
  /\ fg_arg = 0
  /\ fg_reg = 0
  /\ fg_ret = 0
  /\ preempted = FALSE
  /\ running = FALSE
  /\ pulses = 0
  /\ polled = 0
  /\ npolls = 0
  /\ tick = 0
  /\ since = -1
  /\ carry = 0
  /\ gap = -1
  /\ gap_carry = 0

\* Init: both objects as constructed.  The specifications of the Stepper
\* never touch the Path generator and carry the one of the AVR build, where
\* double is float; SpecPath and its kin start from InitPath, either build.
Init ==
  /\ StepperInit
  /\ double_bits = 32
  /\ path = PathInit(double_bits)
  /\ path_polls = 0
  /\ path_tick = 0

InitPath ==
  /\ StepperInit
  /\ double_bits \in DoubleBits
  /\ path = PathInit(double_bits)
  /\ path_polls = 0
  /\ path_tick = 0

(***************************************************************************)
(* Spec: interrupt polls interleaved with the foreground at the grain of   *)
(* its memory accesses.                                                    *)
(***************************************************************************)
\* The timer interrupt: one poll, whatever the foreground is in the middle of.
Poll ==
  /\ \E interval \in Intervals :
       /\ Accumulate(elapsed, interval) <= MaxElapsed
       /\ pollForInterval(interval)
  /\ preempted' = (fg_pc /= "idle")
  /\ UNCHANGED <<foreground, history, generator>>

SetTarget ==
  /\ fg_pc = "idle"
  /\ \E pos \in TargetInputs : setTarget(pos)
  /\ UNCHANGED <<foreground, preempted, hardware, history, generator>>

\* incrementTarget is called and loads target; the sum stays in range (a
\* signed overflow is undefined behaviour, and out of the model's bounds).
IncrementTargetCall ==
  /\ fg_pc = "idle"
  /\ \E offset \in OffsetInputs :
       /\ Abs(target + offset) <= MaxPos
       /\ fg_arg' = offset
  /\ incrementTargetLoad
  /\ fg_pc' = "incrementTarget"
  /\ preempted' = FALSE
  /\ UNCHANGED <<fg_ret, hardware, history, generator>>

IncrementTargetReturn ==
  /\ fg_pc = "incrementTarget"
  /\ incrementTargetStore(fg_arg)
  /\ fg_pc' = "idle"
  /\ fg_arg' = 0
  /\ fg_reg' = 0
  /\ preempted' = FALSE
  /\ UNCHANGED <<fg_ret, hardware, history, generator>>

CurrentPosition ==
  /\ fg_pc = "idle"
  /\ currentPosition
  /\ UNCHANGED <<fg_pc, fg_arg, fg_reg, preempted, hardware, history, generator>>

\* setSpeed is called: it tests its argument and, if positive, stores the
\* quotient.
SetSpeedCall ==
  /\ fg_pc = "idle"
  /\ \E speed \in SpeedInputs :
       /\ setSpeedStore(speed)
       /\ fg_arg' = speed
  /\ fg_pc' = "setSpeed"
  /\ preempted' = FALSE
  /\ UNCHANGED <<fg_reg, fg_ret, hardware, history, generator>>

\* The rest of setSpeed: the zero check, and the return.
SetSpeedReturn ==
  /\ fg_pc = "setSpeed"
  /\ setSpeedCheck(fg_arg)
  /\ fg_pc' = "idle"
  /\ fg_arg' = 0
  /\ preempted' = FALSE
  /\ UNCHANGED <<fg_reg, fg_ret, hardware, history, generator>>

Foreground ==
  \/ SetTarget
  \/ IncrementTargetCall
  \/ IncrementTargetReturn
  \/ CurrentPosition
  \/ SetSpeedCall
  \/ SetSpeedReturn

Next == Poll \/ Foreground

Spec == Init /\ [][Next]_vars


(***************************************************************************)
(* SpecRate: the step generator is configured (setSpeed, before the first  *)
(* poll), then polled with arbitrary intervals while the target moves;     *)
(* the history variables count pulses and polled time.                     *)
(***************************************************************************)
\* The history a poll of `interval` leaves, given the poll's record.
CountPoll(interval) ==
  /\ running' = TRUE
  /\ pulses' = pulses + PulsesIn(writes')
  /\ polled' = polled + interval
  /\ since' = IF PulsesIn(writes') > 0 THEN 0
              ELSE IF since = -1 THEN -1 ELSE since + interval
  /\ carry' = IF PulsesIn(writes') > 0 THEN elapsed' ELSE carry
  /\ gap' = IF PulsesIn(writes') > 0 /\ since /= -1
              THEN since + interval ELSE gap
  /\ gap_carry' = IF PulsesIn(writes') > 0 /\ since /= -1
                    THEN carry ELSE gap_carry

RatePoll ==
  /\ fg_pc = "idle"
  /\ \E interval \in Intervals :
       /\ Accumulate(elapsed, interval) <= MaxElapsed
       /\ polled + interval <= MaxPolled
       /\ pollForInterval(interval)
       /\ CountPoll(interval)
  /\ UNCHANGED <<foreground, preempted, npolls, tick, generator>>

RateSetSpeedCall == ~running /\ SetSpeedCall

RateNext == RatePoll \/ RateSetSpeedCall \/ SetSpeedReturn \/ SetTarget

SpecRate == Init /\ [][RateNext]_vars

(***************************************************************************)
(* SpecTick: the step generator is configured, aimed at a target a million *)
(* steps away, and then polled with one constant interval.                 *)
(***************************************************************************)
\* Arguments of setSpeed: 200, 100 and 50 microseconds per step.
TickSpeeds == {5000, 10000, 20000}
\* The constant poll interval.
TickIntervals == {25, 50, 100, 200}
\* target = position + 1000000, in either direction.
FarTargets == {-1000000, 1000000}

TickSetSpeedCall ==
  /\ ~running
  /\ fg_pc = "idle"
  /\ \E speed \in TickSpeeds :
       /\ setSpeedStore(speed)
       /\ fg_arg' = speed
  /\ fg_pc' = "setSpeed"
  /\ UNCHANGED <<fg_reg, fg_ret, preempted, hardware, history, generator>>

TickSetTarget ==
  /\ ~running
  /\ fg_pc = "idle"
  /\ \E pos \in FarTargets : setTarget(pos)
  /\ UNCHANGED <<foreground, preempted, hardware, history, generator>>

TickPoll ==
  /\ fg_pc = "idle"
  /\ npolls < MaxPolls
  /\ \E interval \in (IF running THEN {tick} ELSE TickIntervals) :
       /\ Accumulate(elapsed, interval) <= MaxBacklog
       /\ pollForInterval(interval)
       /\ tick' = interval
  /\ running' = TRUE
  /\ npolls' = npolls + 1
  /\ pulses' = pulses + PulsesIn(writes')
  /\ UNCHANGED <<foreground, preempted, polled, since, carry, gap, gap_carry, generator>>

TickNext == TickSetSpeedCall \/ SetSpeedReturn \/ TickSetTarget \/ TickPoll

SpecTick == Init /\ [][TickNext]_vars

(***************************************************************************)
(* SpecLive: Spec at the time scale of the default step_interval, with the *)
(* timer interrupt guaranteed to keep coming: time passes between polls    *)
(* infinitely often.                                                       *)
(***************************************************************************)
\* Poll intervals: none, half a default step_interval, more than one.
LiveIntervals == {0, 100, 250}
\* Arguments of setSpeed: ignored, 200 and 100 microseconds per step.
LiveSpeeds == {0, 5000, 10000}

LivePollOf(intervals) ==
  /\ \E interval \in intervals :
       /\ pollForInterval(interval)
       /\ elapsed' <= MaxBacklog
  /\ preempted' = (fg_pc /= "idle")
  /\ UNCHANGED <<foreground, history, generator>>

LivePoll == LivePollOf(LiveIntervals)

\* A poll some time after the previous one (interval >= 1).
LivePollLater == LivePollOf(LiveIntervals \ {0})

LiveSetSpeedCall ==
  /\ fg_pc = "idle"
  /\ \E speed \in LiveSpeeds :
       /\ setSpeedStore(speed)
       /\ fg_arg' = speed
  /\ fg_pc' = "setSpeed"
  /\ preempted' = FALSE
  /\ UNCHANGED <<fg_reg, fg_ret, hardware, history, generator>>

LiveNext ==
  \/ LivePoll
  \/ SetTarget
  \/ IncrementTargetCall
  \/ IncrementTargetReturn
  \/ LiveSetSpeedCall
  \/ SetSpeedReturn

SpecLive == Init /\ [][LiveNext]_vars /\ WF_vars(LivePollLater)

(***************************************************************************)
(* SpecPath: the Path generator alone, commanded and polled from the main  *)
(* loop (a single context: every operation is one step).                   *)
(***************************************************************************)
\* Poll intervals in microseconds.
PathIntervals == {1000, 2000}
\* Arguments of setTarget, incrementTarget and incrementReference (long).
PathTargets == {1000}
PathOffsets == {1000}
\* Arguments of setSpeed and setVelocity (long).
PathSpeeds == {0, 5}
PathVelocities == {-5, 5}
\* Arguments of setPDgains, setFreqDamping and setLimits (float).
PathGains == {<<Zero, Zero>>}
PathFreqDampings == {<<FromLong(2), FromLong(1)>>}
PathLimits == {<<FromLong(-1), FromLong(24000)>>,
               <<FromLong(2400), FromLong(-1)>>}

\* Everything but the Path generator and its history.
outside == <<stepper, hardware, foreground, preempted, history, double_bits>>
\* Everything but the Path generator.
notPath == <<outside, path_polls, path_tick>>

InPathRange(x) == IsFin(x) => FLe(FAbs(x), FromLong(MaxPathPos))

PathPoll ==
  /\ \E interval \in PathIntervals :
       /\ path' = PathPollResult(path, interval, double_bits)
       /\ FLe(path'.t, Dt(MaxPathTime * 1000, double_bits))
  /\ UNCHANGED notPath

PathSetTargetCall ==
  /\ \E pos \in PathTargets : path' = PathSetTarget(path, pos)
  /\ UNCHANGED notPath

PathIncrementTargetCall ==
  /\ \E offset \in PathOffsets : path' = PathIncrementTarget(path, offset)
  /\ InPathRange(path'.q_d_d)
  /\ UNCHANGED notPath

PathIncrementReferenceCall ==
  /\ \E offset \in PathOffsets : path' = PathIncrementReference(path, offset)
  /\ InPathRange(path'.q_d)
  /\ UNCHANGED notPath

PathSetSpeedCall ==
  /\ \E newspeed \in PathSpeeds : path' = PathSetSpeed(path, newspeed)
  /\ UNCHANGED notPath

PathSetVelocityCall ==
  /\ \E newspeed \in PathVelocities :
       \E magnitude \in AbsToFloat(newspeed) :
         path' = PathSetVelocity(path, newspeed, magnitude)
  /\ UNCHANGED notPath

PathSetPDgainsCall ==
  /\ \E g \in PathGains : path' = PathSetPDgains(path, g[1], g[2])
  /\ UNCHANGED notPath

PathSetFreqDampingCall ==
  /\ \E g \in PathFreqDampings : path' = PathSetFreqDamping(path, g[1], g[2], double_bits)
  /\ UNCHANGED notPath

PathSetLimitsCall ==
  /\ \E l \in PathLimits : path' = PathSetLimits(path, l[1], l[2])
  /\ UNCHANGED notPath

PathNext ==
  \/ PathPoll
  \/ PathSetTargetCall
  \/ PathIncrementTargetCall
  \/ PathIncrementReferenceCall
  \/ PathSetSpeedCall
  \/ PathSetVelocityCall
  \/ PathSetPDgainsCall
  \/ PathSetFreqDampingCall
  \/ PathSetLimitsCall

SpecPath == InitPath /\ [][PathNext]_vars

(***************************************************************************)
(* Claims checked under Spec.                                              *)
(***************************************************************************)
DirWrite(level) == PinWrite(X_AXIS_DIR_PIN, level)
StepWrite(level) == PinWrite(X_AXIS_STEP_PIN, level)

\* C1: every poll, with any interval and from any reachable state, emits at
\* most one step pulse (at most one HIGH and one LOW write of the step pin,
\* the HIGH first) and moves position by at most 1, backlog or not.
C1_OnePulsePerPoll ==
  [][Poll =>
       /\ PulsesIn(writes') <= 1
       /\ Cardinality({i \in 1..Len(writes') : writes'[i] = StepWrite(LOW)})
            = PulsesIn(writes')
       /\ Abs(position' - position) <= 1]_vars

\* C1's case: a poll has just emitted a pulse and left more than one whole
\* step_interval of backlog in elapsed, with steps still to go.
C1_Witness ==
  /\ writes /= <<>>
  /\ step_interval >= 1
  /\ elapsed >= 2 * step_interval
  /\ position /= target

\* C2: a poll never writes target or step_interval, the foreground never
\* writes position or elapsed; position changes only in a poll and then by
\* exactly +1 or -1; target keeps the value incrementTarget loaded until its
\* store, which leaves target equal to its old value plus the offset, polls
\* in between or not.
C2_Ownership ==
  [][/\ Poll => (target' = target /\ step_interval' = step_interval)
     /\ Foreground => (position' = position /\ elapsed' = elapsed)
     /\ position' /= position => (Poll /\ Abs(position' - position) = 1)
     /\ fg_pc = "incrementTarget" => fg_reg = target
     /\ IncrementTargetReturn => target' = target + fg_arg]_vars

\* C2's case: incrementTarget has loaded target, a poll has preempted it and
\* moved position, and the store is still to come.
C2_Witness ==
  /\ fg_pc = "incrementTarget"
  /\ preempted
  /\ writes /= <<>>
  /\ fg_arg /= 0

\* C3: a poll never increases |target - position|, a poll that emits a step
\* decreases it by exactly 1, and position never passes target.
C3_TowardTarget ==
  [][Poll =>
       /\ Abs(target - position') <= Abs(target - position)
       /\ writes' /= <<>> => Abs(target - position') = Abs(target - position) - 1
       /\ position < target => position' <= target
       /\ position > target => position' >= target
       /\ position = target => position' = target]_vars

\* C3's case: a step has just brought position onto a target away from the
\* origin.
C3_Witness ==
  /\ writes /= <<>>
  /\ position = target
  /\ Abs(target) = MaxPos

\* C8: pin writes happen only in a poll that changes position, as dir pin,
\* step pin HIGH, position update, step pin LOW, the dir pin HIGH exactly
\* when position is incremented; with position ahead of target (after a
\* reversal) the dir pin is written LOW and position decremented.
C8_PulseShape ==
  [][/\ writes' /= writes => Poll
     /\ pins' /= pins => (Poll /\ position' /= position)
     /\ Poll =>
          \/ writes' = <<>> /\ position' = position /\ pins' = pins
          \/ \E level \in {LOW, HIGH}, delta \in {-1, 1} :
               /\ writes' = << DirWrite(level), StepWrite(HIGH),
                               PositionUpdate(delta), StepWrite(LOW) >>
               /\ (level = HIGH) <=> (delta = 1)
               /\ position' = position + delta
               /\ pins' = [pins EXCEPT ![X_AXIS_DIR_PIN] = level,
                                       ![X_AXIS_STEP_PIN] = LOW]
     /\ (Poll /\ writes' /= <<>> /\ position > target) =>
          (writes'[1] = DirWrite(LOW) /\ position' = position - 1)]_vars

\* C8's case: position was advanced above the origin, the target was then
\* set below it, and the pulse after that wrote the dir pin LOW and
\* decremented position.
C8_Witness ==
  /\ position = MaxPos - 1
  /\ target = -MaxPos
  /\ writes /= <<>>
  /\ writes[1] = DirWrite(LOW)
  /\ pins[X_AXIS_DIR_PIN] = LOW

\* C9: step_interval >= 1 whenever a poll reads it, also when the poll
\* preempts setSpeed between its store of 1000000 / speed and its zero check.
C9_PollReadsPositiveInterval ==
  [][Poll => step_interval >= 1]_vars


(***************************************************************************)
(* Claims checked under SpecRate and SpecTick.                             *)
(***************************************************************************)
\* C4 as claimed: the polled time between two consecutive step pulses is at
\* least step_interval.
C4_MinimumSpacing ==
  gap /= -1 => gap >= step_interval

\* C4 as amended: the polled time between two consecutive step pulses is at
\* least step_interval less the backlog that elapsed held right after the
\* earlier pulse (so at least step_interval when that pulse left none).
C4_SpacingLessCarry ==
  gap /= -1 => /\ gap >= step_interval - gap_carry
               /\ gap_carry = 0 => gap >= step_interval

\* C4's case: two consecutive pulses closer than step_interval, the earlier
\* having left a backlog.
C4_Witness ==
  /\ gap /= -1
  /\ gap < step_interval
  /\ gap_carry > 0
  /\ gap > 0

\* C5: with step_interval constant from elapsed = 0 on, the pulses emitted
\* times step_interval never exceed the total polled time.
C5_AverageRate ==
  pulses * step_interval <= polled

\* C5's case: several pulses from polls of unequal intervals, at the full
\* rate of one pulse per step_interval.
C5_Witness ==
  /\ pulses = 3
  /\ step_interval = 4
  /\ polled = 3 * 4
  /\ gap /= step_interval

\* C6: from elapsed = 0, with the target at least as many steps away as
\* there are polls and a constant interval that divides step_interval,
\* n polls emit exactly floor(n * interval / step_interval) pulses and
\* move position by as many steps (200 and 50 microseconds: 20000 polls,
\* 5000 pulses).
C6_ConstantTick ==
  (running /\ step_interval % tick = 0 /\ Abs(target) >= npolls) =>
     /\ pulses = (npolls * tick) \div step_interval
     /\ Abs(position) = pulses
     /\ Abs(target - position) = Abs(target) - pulses

\* C6's case: the scenario of 20000 polls of 50 microseconds at the default
\* step_interval of 200.
C6_Witness ==
  /\ step_interval = 200
  /\ tick = 50
  /\ npolls = 20000
  /\ pulses = 5000
  /\ position = 5000


(***************************************************************************)
(* Claims checked under SpecLive.                                          *)
(***************************************************************************)
\* C7: if target stops being updated (it keeps some value c from some point
\* on) and polls with interval >= 1 keep occurring, then position eventually
\* equals target and stays equal to it, whatever the polls saw before.
C7_Converges ==
  \A c \in -MaxPos..MaxPos : (<>[](target = c)) => <>[](position = c)

\* C7's case: a poll has preempted incrementTarget and stepped toward the
\* target about to be replaced, so that position has to turn back.
C7_Witness ==
  /\ fg_pc = "incrementTarget"
  /\ preempted
  /\ writes /= <<>>
  /\ position > target
  /\ fg_arg > 0


(***************************************************************************)
(* Claims checked under SpecPath.                                          *)
(***************************************************************************)
\* C10: after every return of Path::pollForInterval, for any sequence of
\* commands and any poll intervals, |qd| <= qd_max.
C10_VelocityWithinLimit ==
  [][PathPoll => FLe(FAbs(path'.qd), path'.qd_max)]_vars

\* C11: in every Path poll the acceleration that is integrated into qd lies
\* in [-qdd_max, +qdd_max], so that qd changes by at most qdd_max * dt in
\* the poll.
C11_AccelerationWithinLimit ==
  [][PathPoll =>
       /\ FLe(FAbs(Acceleration(path)), path.qdd_max)
       /\ \E interval \in PathIntervals :
            /\ path' = PathPollResult(path, interval, double_bits)
            /\ FLe(FAbs(FSub(path'.qd, path.qd)),
                   FMul(path.qdd_max, Dt(interval, double_bits)))]_vars


(***************************************************************************)
(* SpecRamp: the reference ramp of the Path generator with finite speeds   *)
(* and finite targets, over a few polls.                                   *)
(***************************************************************************)
MaxRampPolls == 3
RampIntervals == {1000}
RampSpeeds == {1004, 1000000}
RampTargets == {-1, 1000}

RampPoll ==
  /\ path_polls < MaxRampPolls
  /\ \E interval \in RampIntervals :
       path' = PathPollResult(path, interval, double_bits)
  /\ path_polls' = path_polls + 1
  /\ UNCHANGED <<outside, path_tick>>

RampSetSpeedCall ==
  /\ \E newspeed \in RampSpeeds : path' = PathSetSpeed(path, newspeed)
  /\ UNCHANGED notPath

RampSetTargetCall ==
  /\ \E pos \in RampTargets : path' = PathSetTarget(path, pos)
  /\ UNCHANGED notPath

RampNext ==
  \/ RampPoll
  \/ RampSetSpeedCall
  \/ RampSetTargetCall

SpecRamp == InitPath /\ [][RampNext]_vars

\* Path.cpp 62: the ramp error q_d_d - q_d
RampError(p) == FSub(p.q_d_d, p.q_d)

\* C12: with finite speed and finite q_target, a Path poll moves q_ref
\* toward q_target: the sign of q_target - q_ref does not flip, its
\* magnitude does not increase, q_ref does not pass q_target, and a poll
\* whose largest step speed * dt covers the error lands exactly on q_target.
C12_RampTowardTarget ==
  [][(RampPoll /\ IsFin(path.speed) /\ IsFin(path.q_d_d)) =>
       /\ ~(FGt(RampError(path), Zero) /\ FLt(RampError(path'), Zero))
       /\ ~(FLt(RampError(path), Zero) /\ FGt(RampError(path'), Zero))
       /\ FLe(FAbs(RampError(path')), FAbs(RampError(path)))
       /\ \A interval \in RampIntervals :
            FLe(FAbs(RampError(path)),
                FMul(path.speed, Dt(interval, double_bits)))
              => FEq(path'.q_d, path.q_d_d)]_vars


(***************************************************************************)
(* Further claims checked under SpecPath.                                  *)
(***************************************************************************)
\* C13: a Path poll with infinite speed and a finite q_target different
\* from q_ref sets q_ref = q_target and qd_ref = 0, whatever the interval;
\* and any poll that starts with q_ref == q_target leaves q_ref unchanged
\* and sets qd_ref = 0.
C13_StepAndHold ==
  [][PathPoll =>
       /\ (IsInf(path.speed) /\ IsFin(path.q_d_d) /\ ~FEq(path.q_d, path.q_d_d))
            => (path'.q_d = path.q_d_d /\ path'.qd_d = Zero)
       /\ FEq(path.q_d, path.q_d_d)
            => (path'.q_d = path.q_d /\ path'.qd_d = Zero)]_vars


\* C19: in every reachable Path state the reference position q_ref is
\* finite (of the commanded quantities only q_target and speed are ever
\* infinite), and the ramp error q_target - q_ref is not the undefined
\* difference of two infinities.
C19_ReferenceFinite ==
  /\ IsFin(path.q_d)
  /\ IsFin(path.qd_d)
  /\ ~IsNaN(RampError(path))


(***************************************************************************)
(* SpecVelocity: constant-velocity commands to the Path generator, with    *)
(* the extreme arguments of setSpeed and setVelocity and a reference far   *)
(* from zero, over a few polls.                                            *)
(***************************************************************************)
MaxVelocityPolls == 3
MaxVelocityPos == 16777216
VelocityIntervals == {1000}
Velocities == {LONG_MIN, -300, 300}
VelocitySpeeds == {LONG_MIN, 0, 500}
VelocityOffsets == {16777216}

InVelocityRange(x) == IsFin(x) => FLe(FAbs(x), FromLong(MaxVelocityPos))

VelocityPoll ==
  /\ path_polls < MaxVelocityPolls
  /\ \E interval \in VelocityIntervals :
       path' = PathPollResult(path, interval, double_bits)
  /\ path_polls' = path_polls + 1
  /\ UNCHANGED <<outside, path_tick>>

VelocitySetVelocityCall ==
  /\ \E newspeed \in Velocities :
       \E magnitude \in AbsToFloat(newspeed) :
         path' = PathSetVelocity(path, newspeed, magnitude)
  /\ UNCHANGED notPath

VelocitySetSpeedCall ==
  /\ \E newspeed \in VelocitySpeeds : path' = PathSetSpeed(path, newspeed)
  /\ UNCHANGED notPath

VelocityIncrementTargetCall ==
  /\ \E offset \in VelocityOffsets : path' = PathIncrementTarget(path, offset)
  /\ InVelocityRange(path'.q_d_d)
  /\ UNCHANGED notPath

VelocityIncrementReferenceCall ==
  /\ \E offset \in VelocityOffsets : path' = PathIncrementReference(path, offset)
  /\ InVelocityRange(path'.q_d)
  /\ UNCHANGED notPath

VelocityNext ==
  \/ VelocityPoll
  \/ VelocitySetVelocityCall
  \/ VelocitySetSpeedCall
  \/ VelocityIncrementTargetCall
  \/ VelocityIncrementReferenceCall

SpecVelocity == InitPath /\ [][VelocityNext]_vars

\* C16: in every reachable Path state speed is +infinity or a finite
\* non-negative value, whatever the integer arguments of the setSpeed and
\* setVelocity calls so far; and setSpeed(v) with v <= 0 leaves
\* speed = +infinity.
C16_SpeedNonNegative ==
  /\ path.speed = PInf \/ (IsFin(path.speed) /\ FLe(Zero, path.speed))
  /\ \A v \in {s \in VelocitySpeeds : s <= 0} :
       PathSetSpeed(path, v).speed = PInf


\* C15: while q_target is +infinity (respectively -infinity) after
\* setVelocity, with speed = |v| > 0 and a finite q_ref, every Path poll
\* moves q_ref by speed * dt upward (respectively downward) and sets
\* qd_ref = +speed (respectively -speed), and never finds
\* q_ref == q_target; and incrementTarget leaves q_target infinite.  (The
\* states with a negative speed or an infinite q_ref are those of C16 and
\* C19.)
C15_ConstantVelocity ==
  [][/\ (/\ VelocityPoll
         /\ IsInf(path.q_d_d)
         /\ IsFin(path.q_d)
         /\ IsFin(path.speed)
         /\ FGt(path.speed, Zero))
        => \E interval \in VelocityIntervals :
             LET step == FMul(path.speed, Dt(interval, double_bits))
             IN  /\ ~FEq(path.q_d, path.q_d_d)
                 /\ path.q_d_d = PInf
                      => /\ path'.q_d = FAdd(path.q_d, step)
                         /\ FGt(path'.q_d, path.q_d)
                         /\ path'.qd_d = path.speed
                 /\ path.q_d_d = NInf
                      => /\ path'.q_d = FSub(path.q_d, step)
                         /\ FLt(path'.q_d, path.q_d)
                         /\ path'.qd_d = FNeg(path.speed)
     /\ (VelocityIncrementTargetCall /\ IsInf(path.q_d_d))
        => path'.q_d_d = path.q_d_d]_vars


\* Arguments for the round trip of setTarget.
RoundTripTargets == {-1000, 0, 1000}

\* C17: Path::setTarget(x) overwrites q_target with x whatever the previous
\* value, infinite included, and changes no other field; so
\* setTarget(x); setTarget(y); setTarget(x) leaves q_target == x, and a
\* repeated setTarget(x) with no poll in between leaves the state of a
\* single call.
C17_SetTargetOverwrites ==
  [][PathSetTargetCall =>
       \E x \in PathTargets :
         /\ path' = [path EXCEPT !.q_d_d = FromLong(x)]
         /\ PathSetTarget(path', x) = path'
         /\ \A y \in RoundTripTargets :
              PathSetTarget(PathSetTarget(path', y), x) = path']_vars

\* C17's case: q_ref is infinite, so that q_target has been infinite, and
\* q_target is the finite argument of a later setTarget.
C17_Witness ==
  /\ IsInf(path.q_d)
  /\ path.q_d_d \in {FromLong(x) : x \in PathTargets}


(***************************************************************************)
(* SpecRun: whole runs of the Path generator.  The generator is commanded  *)
(* once, from its constructed state, and then polled at a constant         *)
(* interval.                                                               *)
(***************************************************************************)
MaxRunPolls == 2002
RunIntervals == {1000, 2000}
RunSpeeds == {300, 500}
RunTargets == {3, 1000}
\* Natural frequencies in Hz, for setFreqDamping(f, 1.0).
RunFrequencies == {2, 5, 6}

RunSetSpeedCall ==
  /\ path_polls = 0
  /\ \E newspeed \in RunSpeeds : path' = PathSetSpeed(path, newspeed)
  /\ UNCHANGED notPath

RunSetTargetCall ==
  /\ path_polls = 0
  /\ \E pos \in RunTargets : path' = PathSetTarget(path, pos)
  /\ UNCHANGED notPath

RunSetFreqDampingCall ==
  /\ path_polls = 0
  /\ \E f \in RunFrequencies :
       path' = PathSetFreqDamping(path, FromLong(f), FromLong(1), double_bits)
  /\ UNCHANGED notPath

RunPoll ==
  /\ path_polls < MaxRunPolls
  /\ \E interval \in RunIntervals :
       /\ path_tick \in {0, interval}
       /\ path' = PathPollResult(path, interval, double_bits)
       /\ path_tick' = interval
  /\ path_polls' = path_polls + 1
  /\ UNCHANGED outside

RunNext ==
  \/ RunSetSpeedCall
  \/ RunSetTargetCall
  \/ RunSetFreqDampingCall
  \/ RunPoll

SpecRun == InitPath /\ [][RunNext]_vars


\* ceil(a / b) for positive integers
CeilDiv(a, b) == (a + b - 1) \div b

\* ceil(D / (s * dt)): the polls of a constant interval that a ramp to the
\* target D at speed s is expected to take
RampPolls(p, interval) ==
  CeilDiv(ToLong(p.q_d_d) * MicrosPerSecond, ToLong(p.speed) * interval)

\* C14: in a ramped move with finite speed s > 0 from q_ref = 0 to a target
\* D > 0, polled at constant dt, q_ref first equals D after exactly
\* ceil(D / (s * dt)) polls; qd_ref is +s after every poll of the ramp and 0
\* after every later poll.
C14_RampPollCount ==
  [][(RunPoll /\ IsFin(path.speed) /\ FGt(path.q_d_d, Zero)) =>
       /\ FEq(path'.q_d, path'.q_d_d)
            <=> path_polls' >= RampPolls(path', path_tick')
       /\ path'.qd_d = IF path_polls' <= RampPolls(path', path_tick')
                         THEN path'.speed ELSE Zero]_vars


\* C14, amended: in a ramped move with finite speed s > 0 from q_ref = 0 to
\* a target D > 0, polled at a constant interval, q_ref never decreases and
\* never passes D; a poll that starts with q_ref < D sets qd_ref = +s and a
\* poll that starts with q_ref = D leaves q_ref and sets qd_ref = 0.  With
\* setSpeed(500), setTarget(1000), q_ref first equals D at poll
\* ceil(D / (s * dt)) (poll 2000 at 1 ms, poll 1000 at 2 ms); with
\* setSpeed(300), setTarget(3) at 1 ms it first equals D one poll later, at
\* poll 11.
C14_RampLanding ==
  [][(RunPoll /\ IsFin(path.speed) /\ FGt(path.q_d_d, Zero)) =>
       /\ FLe(path.q_d, path'.q_d)
       /\ FLe(path'.q_d, path.q_d_d)
       /\ FLt(path.q_d, path.q_d_d) => path'.qd_d = path.speed
       /\ FEq(path.q_d, path.q_d_d)
            => (path'.q_d = path.q_d /\ path'.qd_d = Zero)
       /\ (path.speed = FromLong(500) /\ path.q_d_d = FromLong(1000))
            => (FEq(path'.q_d, path.q_d_d)
                  <=> path_polls' >= RampPolls(path, path_tick'))
       /\ (path.speed = FromLong(300) /\ path.q_d_d = FromLong(3)
             /\ path_tick' = 1000)
            => (FEq(path'.q_d, path.q_d_d)
                  <=> path_polls' >= RampPolls(path, path_tick') + 1)]_vars

\* C14's case: the scenario's ramp lands on the target at poll 2000, with
\* qd_ref still +500.
C14_Witness ==
  /\ path.speed = FromLong(500)
  /\ path.q_d_d = FromLong(1000)
  /\ path_tick = 1000
  /\ path_polls = 2000
  /\ path.q_d = path.q_d_d
  /\ path.qd_d = path.speed


\* The natural frequencies, in Hz, for which the step response is monotone.
DampedFrequencies == {2, 5}

\* The step response scenario: infinite speed, a step of q_target from 0
\* to 1000, polls of 1 ms.
StepResponse(p, interval) ==
  /\ p.speed = PInf
  /\ p.q_d_d = FromLong(1000)
  /\ interval = 1000

\* C18: with gains from setFreqDamping(f, 1.0), the default limits,
\* infinite speed and polls of 1 ms, after a step of q_target from 0 to
\* 1000 the model position q is non-decreasing on every poll and never
\* exceeds q_target, and q comes within 1 of q_target (by t = 1.5 s, which
\* is poll 1500).
C18_NoOvershoot ==
  [][(RunPoll /\ StepResponse(path', path_tick')) =>
       /\ FLe(path.q, path'.q)
       /\ FLe(path'.q, path'.q_d_d)
       /\ path_polls' >= 1500
            => FLt(FSub(path'.q_d_d, path'.q), FromLong(1))]_vars

\* C18, amended: the same for the natural frequencies f = 2 Hz (the
\* default) and f = 5 Hz.
C18_NoOvershootDamped ==
  [][(/\ RunPoll
      /\ StepResponse(path', path_tick')
      /\ path'.k \in {GainK(FromLong(f), double_bits) : f \in DampedFrequencies}) =>
       /\ FLe(path.q, path'.q)
       /\ FLe(path'.q, path'.q_d_d)
       /\ path_polls' >= 1500
            => FLt(FSub(path'.q_d_d, path'.q), FromLong(1))]_vars

\* C18's case: in the step response with the default gains the model
\* velocity is held at qd_max by the velocity clamp while the acceleration
\* clamp is active too, and q is on its way to the target.
C18_Witness ==
  /\ path_polls > 0
  /\ StepResponse(path, path_tick)
  /\ path.k = GainK(FromLong(2), double_bits)
  /\ path.qd = path.qd_max
  /\ FAbs(Acceleration(path)) = path.qdd_max
  /\ FGt(path.q, Zero)
  /\ FLt(path.q, path.q_d_d)


(***************************************************************************)
(* A further claim checked under SpecRate.                                 *)
(***************************************************************************)
\* C20: a Stepper poll whose interval is at most step_interval, starting
\* with elapsed < step_interval, ends with elapsed < step_interval, so that
\* with step_interval unchanged and such intervals only no backlog is ever
\* banked; a due poll reduces elapsed by step_interval, also when
\* position == target, so that after an interval above step_interval the
\* excess stays in elapsed for the later polls; and a poll that is not due
\* only adds its interval.
C20_ElapsedCarry ==
  [][RatePoll =>
       LET interval == polled' - polled
       IN  /\ (elapsed < step_interval /\ interval <= step_interval)
                => elapsed' < step_interval
           /\ elapsed + interval >= step_interval
                => elapsed' = elapsed + interval - step_interval
           /\ elapsed + interval < step_interval
                => elapsed' = elapsed + interval
           /\ step_interval' = step_interval]_vars

\* C20's case: no pulse has been emitted (position == target at every poll
\* so far), a poll with an interval above step_interval has been due, and
\* its excess is in elapsed.
C20_Witness ==
  /\ pulses = 0
  /\ position = target
  /\ polled > elapsed
  /\ elapsed > 0
  /\ elapsed < step_interval

=============================================================================
